---- MODULE Spec2Model ----
(***************************************************************************)
(* A model of packages/vue/src/FormKitSchema.ts: the schema compiler       *)
(* (parseSchema / createElement / parseNode / parseAttrs), the scope store *)
(* (__FK_SCP, getRef, findValue, setValue) and the render closures with    *)
(* their shared iteration scope stack (iterationScopes, checkScope).       *)
(*                                                                         *)
(* JavaScript values are records [t, v]: t is the kind, v the payload.     *)
(* A JavaScript string is a sequence of one-character strings, so that     *)
(* split('.'), startsWith('$') and Number(string) are computed.            *)
(* An object is an ordered sequence of entries [k, val] (own keys in       *)
(* enumeration order); an array is a sequence of values.                   *)
(***************************************************************************)
EXTENDS Integers, Sequences, FiniteSets, TLC

VARIABLES
    schema,           \* props.schema: the schema handed to the component
    data,             \* props.data: the (reactive) root data object
    scp,              \* data.__FK_SCP: scope symbol -> bindings object
    refs,             \* the refs made by getRef, in creation order
    heap,             \* attribute map instances, by identity
    element,          \* the compiled root render closure, or NotCompiled
    iterationScopes,  \* the module-level iteration scope stack
    dirty,            \* TRUE while watchEffect re-runs are queued
    raised,           \* TRUE once a getRef effect has thrown
    pc,               \* "init" before setup, "ready" after
    out,              \* what the last render pass returned
    thrown,           \* TRUE when the last render pass threw
    calls,            \* last pass: render closure calls that returned
    resolved,         \* last pass: checkScope evaluations
    loops,            \* last pass: loop closure evaluations
    attrCalls,        \* all passes: top-level attribute closure calls
    branches,         \* last pass: the branch each condition selected
    seen,             \* the refs as the last render pass read them
    passes,           \* render passes run so far
    mutations         \* data mutations made so far

vars == <<schema, data, scp, refs, heap, element, iterationScopes, dirty,
          raised, pc, out, thrown, calls, resolved, loops, attrCalls,
          branches, seen, passes, mutations>>

\* ---------------------------------------------------------------- bounds
MaxPasses == 2
MaxMutations == 2

\* ------------------------------------------------------ JavaScript values
Undefined == [t |-> "undefined", v |-> 0]
Null == [t |-> "null", v |-> 0]
Bool(b) == [t |-> "boolean", v |-> b]
Num(n) == [t |-> "number", v |-> n]
Str(cs) == [t |-> "string", v |-> cs]
Arr(s) == [t |-> "array", v |-> s]
Obj(es) == [t |-> "object", v |-> es]
Ref(i) == [t |-> "ref", v |-> i]
\* A TypeError raised while evaluating (a property read on null).
Throw == [t |-> "throw", v |-> 0]
E(k, val) == [k |-> k, val |-> val]
EmptyObj == Obj(<<>>)

IsTagged(x) == "t" \in DOMAIN x
IsString(x) == IsTagged(x) /\ x.t = "string"
IsArray(x) == IsTagged(x) /\ x.t = "array"

typeof(x) ==
    CASE x.t = "undefined" -> "undefined"
      [] x.t = "boolean" -> "boolean"
      [] x.t = "number" -> "number"
      [] x.t = "string" -> "string"
      [] OTHER -> "object"

truthy(x) ==
    CASE x.t = "undefined" -> FALSE
      [] x.t = "null" -> FALSE
      [] x.t = "boolean" -> x.v
      [] x.t = "number" -> x.v # 0
      [] x.t = "string" -> x.v # <<>>
      [] OTHER -> TRUE

Digits == <<"0", "1", "2", "3", "4", "5", "6", "7", "8", "9">>

IsDigit(c) == \E i \in 1..10 : Digits[i] = c

DigitVal(c) == (CHOOSE i \in 1..10 : Digits[i] = c) - 1

RECURSIVE NatStr(_)
NatStr(n) == IF n < 10 THEN <<Digits[n + 1]>>
             ELSE NatStr(n \div 10) \o <<Digits[(n % 10) + 1]>>

IntStr(n) == IF n < 0 THEN <<"-">> \o NatStr(0 - n) ELSE NatStr(n)

RECURSIVE ParseNat(_, _)
ParseNat(cs, acc) == IF cs = <<>> THEN acc
                     ELSE ParseNat(Tail(cs), acc * 10 + DigitVal(Head(cs)))

AllDigits(cs) == cs # <<>> /\ \A i \in 1..Len(cs) : IsDigit(cs[i])

\* Number(string) for the strings of the model: digits with an optional sign,
\* the empty string (0), anything else NaN.
StrToNumber(cs) ==
    IF cs = <<>> THEN [nan |-> FALSE, n |-> 0]
    ELSE IF AllDigits(cs) THEN [nan |-> FALSE, n |-> ParseNat(cs, 0)]
    ELSE IF Head(cs) = "-" /\ AllDigits(Tail(cs))
         THEN [nan |-> FALSE, n |-> 0 - ParseNat(Tail(cs), 0)]
    ELSE [nan |-> TRUE, n |-> 0]

RECURSIVE ToStr(_)
RECURSIVE JoinArr(_)
\* String(x)
ToStr(x) ==
    CASE x.t = "undefined" -> <<"u", "n", "d", "e", "f", "i", "n", "e", "d">>
      [] x.t = "null" -> <<"n", "u", "l", "l">>
      [] x.t = "boolean" -> IF x.v THEN <<"t", "r", "u", "e">>
                            ELSE <<"f", "a", "l", "s", "e">>
      [] x.t = "number" -> IntStr(x.v)
      [] x.t = "string" -> x.v
      [] x.t = "array" -> JoinArr(x.v)
      [] OTHER -> <<"[", "o", "b", "j", "e", "c", "t", "]">>

\* Array.prototype.join(','): null and undefined elements give ''.
JoinArr(s) ==
    IF s = <<>> THEN <<>>
    ELSE (IF Head(s).t \in {"undefined", "null"} THEN <<>>
          ELSE ToStr(Head(s)))
         \o (IF Len(s) = 1 THEN <<>> ELSE <<",">> \o JoinArr(Tail(s)))

\* Number(x), as isNaN(x) and Number(x) coerce their argument.
ToNumber(x) ==
    CASE x.t = "undefined" -> [nan |-> TRUE, n |-> 0]
      [] x.t = "null" -> [nan |-> FALSE, n |-> 0]
      [] x.t = "boolean" -> [nan |-> FALSE, n |-> IF x.v THEN 1 ELSE 0]
      [] x.t = "number" -> [nan |-> FALSE, n |-> x.v]
      [] x.t = "string" -> StrToNumber(x.v)
      [] x.t = "array" -> StrToNumber(JoinArr(x.v))
      [] OTHER -> [nan |-> TRUE, n |-> 0]

\* ------------------------------------------------------------- objects
HasKey(es, key) == \E i \in 1..Len(es) : es[i].k = key

KeyIndex(es, key) == CHOOSE i \in 1..Len(es) : es[i].k = key

\* Own enumerable keys in for...in order.
RECURSIVE IndexKeys(_, _)
IndexKeys(i, n) == IF i >= n THEN <<>> ELSE <<NatStr(i)>> \o IndexKeys(i + 1, n)

Keys(x) ==
    CASE x.t = "array" -> IndexKeys(0, Len(x.v))
      [] x.t = "object" -> [i \in 1..Len(x.v) |-> x.v[i].k]
      [] OTHER -> <<>>

\* has(obj, key) of @formkit/utils: Object.prototype.hasOwnProperty.
has(obj, key) ==
    CASE obj.t = "object" -> HasKey(obj.v, key)
      [] obj.t = "array" -> AllDigits(key) /\ ParseNat(key, 0) < Len(obj.v)
                            /\ NatStr(ParseNat(key, 0)) = key
      [] OTHER -> FALSE

\* obj[key] for an object or an array; Throw on null and undefined.
Get(obj, key) ==
    CASE obj.t \in {"null", "undefined"} -> Throw
      [] has(obj, key) /\ obj.t = "object" -> obj.v[KeyIndex(obj.v, key)].val
      [] has(obj, key) /\ obj.t = "array" -> obj.v[ParseNat(key, 0) + 1]
      [] OTHER -> Undefined

\* Object.assign(target, source) on entry lists: an existing key keeps its
\* place and takes the new value, a new key is appended.
RECURSIVE Assign(_, _)
Assign(target, source) ==
    IF source = <<>> THEN target
    ELSE Assign(IF HasKey(target, Head(source).k)
                THEN [target EXCEPT ![KeyIndex(target, Head(source).k)].val =
                                        Head(source).val]
                ELSE Append(target, Head(source)),
                Tail(source))

\* ------------------------------------------------- scope store, resolver
\* token.split('.')
RECURSIVE SplitFrom(_, _)
SplitFrom(cs, cur) ==
    IF cs = <<>> THEN <<cur>>
    ELSE IF Head(cs) = "." THEN <<cur>> \o SplitFrom(Tail(cs), <<>>)
    ELSE SplitFrom(Tail(cs), Append(cur, Head(cs)))

split(token) == SplitFrom(token, <<>>)

RECURSIVE reducePath(_, _, _)

\* The reduce callback of findValue at segment i, where cur is obj[segment]:
\* the last segment sets `found` when obj owns the key, an earlier one hands
\* on obj[segment] when its typeof is 'object' and {} otherwise.
reduceStep(obj, path, i, cur) ==
    IF i = Len(path)
    THEN IF has(obj, path[i]) THEN cur ELSE Undefined
    ELSE reducePath(IF typeof(cur) = "object" THEN cur ELSE EmptyObj,
                    path, i + 1)

\* path.reduce(..., set) from segment i on: the value of `found` after it,
\* or Throw when a segment is read on null (typeof null is 'object').
reducePath(obj, path, i) ==
    IF obj.t = "null" THEN Throw
    ELSE reduceStep(obj, path, i, Get(obj, path[i]))

\* The test that ends the search at a candidate: found !== undefined.
foundHit(found) == found # Undefined

RECURSIVE findValue(_, _)

\* if (found !== undefined) return found, else the next candidate.
findNext(found, sets, path) ==
    IF found = Throw THEN Throw
    ELSE IF foundHit(found) THEN found
    ELSE findValue(Tail(sets), path)

findValue(sets, path) ==
    IF sets = <<>> THEN Undefined
    ELSE findNext(reducePath(Head(sets), path, 1), sets, path)

\* scopes.map((scope) => data.__FK_SCP.get(scope) || false).filter((s) => s)
scopeSets(store, scopes) ==
    SelectSeq([i \in 1..Len(scopes) |->
                  IF scopes[i] \in DOMAIN store THEN store[scopes[i]]
                  ELSE Bool(FALSE)],
              LAMBDA s : truthy(s))

\* The candidates of getRef's effect: the scope bindings, then the data.
lookupSets(d, store, scopes) == Append(scopeSets(store, scopes), d)

\* The assignment guard of the effect: a result that leaves the held value.
keepsPrior(foundValue) == foundValue = Undefined

\* if (foundValue !== undefined) value.value = foundValue
assignFound(r, foundValue) ==
    IF foundValue = Throw THEN [r EXCEPT !.found = Throw]
    ELSE IF keepsPrior(foundValue) THEN [r EXCEPT !.found = foundValue]
    ELSE [r EXCEPT !.value = foundValue, !.found = foundValue]

\* One run of the watchEffect callback of getRef for ref r; r.found keeps
\* the foundValue of the run.
runEffect(d, store, r) ==
    assignFound(r, findValue(lookupSets(d, store, r.scopes), r.path))

\* getRef: a new ref holding null, and the first (immediate) effect run.
getRef(d, store, scopes, token) ==
    runEffect(d, store, [scopes |-> scopes, token |-> token,
                         path |-> split(token), value |-> Null,
                         found |-> Undefined])

\* The scope a let binding is written to: scopes[scopes.length - 1].
targetScope(scopes) == scopes[Len(scopes)]

\* setValue(data, scopes, key, value) with a string key.
setValue(store, scopes, key, value) ==
    IF targetScope(scopes) \in DOMAIN store
    THEN [store EXCEPT ![targetScope(scopes)] =
                           Obj(Assign(@.v, <<E(key, value)>>))]
    ELSE (targetScope(scopes) :> Obj(<<E(key, value)>>)) @@ store

\* The order in which checkScope hands the iteration frames to findValue.
frameOrder(stack) == stack

\* return foundValue !== undefined ? foundValue : value
orValue(foundValue, value) ==
    IF foundValue = Throw THEN Throw
    ELSE IF foundValue # Undefined THEN foundValue ELSE value

\* checkScope(value, token) against the iteration scope stack `stack`.
checkScope(stack, value, token) ==
    IF Len(stack) > 0
    THEN orValue(findValue(frameOrder(stack), split(token)), value)
    ELSE value

\* ------------------------------------------------------- schema grammar
kEl == <<"$", "e", "l">>
kCmp == <<"$", "c", "m", "p">>
kIf == <<"i", "f">>
kThen == <<"t", "h", "e", "n">>
kElse == <<"e", "l", "s", "e">>
kAttrs == <<"a", "t", "t", "r", "s">>
kProps == <<"p", "r", "o", "p", "s">>
kChildren == <<"c", "h", "i", "l", "d", "r", "e", "n">>
kLet == <<"l", "e", "t">>
kFor == <<"f", "o", "r">>
TextEl == <<"t", "e", "x", "t">>

\* isDOM, isComponent, isConditional of @formkit/schema and isPojo of
\* @formkit/utils.
isDOM(node) == ~IsString(node) /\ has(node, kEl)

isComponent(node) == ~IsString(node) /\ has(node, kCmp)

isConditional(node) ==
    truthy(node) /\ ~IsString(node) /\ has(node, kIf) /\ has(node, kThen)

isPojo(x) == x.t = "object"

\* value.startsWith('$') && value.length > 1
isDynamic(x) == IsString(x) /\ Len(x.v) > 1 /\ x.v[1] = "$"

\* -------------------------------------------------------------- compile
\* Closures are data: a record with a kind k and what the closure captured.
\* The compiler threads cs = [scp, refs, heap, sym, raised]: the scope store,
\* the refs made so far, the heap, the next fresh Symbol() and whether an
\* effect has thrown. A step that follows a call takes the call's result as
\* a parameter.
NullFn == [k |-> "null"]
NoFn == [k |-> "none"]
ConstFn(val) == [k |-> "const", val |-> val]

\* The closure () => checkScope(value.value, token) over the new ref r.
tokenFn(cs, r) ==
    [cs |-> [cs EXCEPT !.refs = Append(@, r),
                       !.raised = @ \/ r.found = Throw],
     fn |-> [k |-> "expr", ref |-> Len(cs.refs) + 1, token |-> r.token]]

\* compile(expr).provide(token => { const value = getRef(...); return () =>
\* checkScope(value.value, token) }) for an expression that is one token.
provide(cs, scopes, expr) ==
    tokenFn(cs, getRef(data, cs.scp, scopes, Tail(expr.v)))

\* A new object instance on the heap.
alloc(cs, entries) ==
    [cs |-> [cs EXCEPT !.heap = Append(@, Obj(entries))],
     id |-> Len(cs.heap) + 1]

\* The {} handed to parseConditionAttr as the default of a root conditional.
rootDefault(cs) == alloc(cs, <<>>)

\* attrs[attr] = value on the closure's own attrs object.
setAttr(cs, attrs, attr, value) ==
    [cs EXCEPT !.heap[attrs] = Obj(Assign(@.v, <<E(attr, value)>>))]

RECURSIVE parseAttrs(_, _, _)
RECURSIVE parseAttrEntries(_, _, _, _, _)

\* return () => (condition() ? a() : b())
condAttrFn(c, a, b) ==
    [cs |-> b.cs, fn |-> [k |-> "cond", c |-> c, a |-> a, b |-> b.fn]]

\* The else branch of parseConditionAttr, after `a` is compiled.
condAttrElse(c, a, scopes, attr, default) ==
    condAttrFn(c, a.fn,
        IF has(attr, kElse) /\ typeof(Get(attr, kElse)) = "object"
        THEN parseAttrs(a.cs, scopes, Get(attr, kElse))
        ELSE IF has(attr, kElse)
             THEN [cs |-> a.cs, fn |-> ConstFn(Get(attr, kElse))]
             ELSE [cs |-> a.cs, fn |-> ConstFn(default)])

\* The then branch of parseConditionAttr, after the condition is compiled.
condAttrThen(c, scopes, attr, default) ==
    condAttrElse(c.fn,
        IF truthy(Get(attr, kThen)) /\ typeof(Get(attr, kThen)) = "object"
        THEN parseAttrs(c.cs, scopes, Get(attr, kThen))
        ELSE [cs |-> c.cs, fn |-> ConstFn(Get(attr, kThen))],
        scopes, attr, default)

parseConditionAttr(cs, scopes, attr, default) ==
    condAttrThen(provide(cs, scopes, Get(attr, kIf)), scopes, attr, default)

\* setters.push(() => { Object.assign(attrs, { [attr]: fn() }) }), and on to
\* the next attribute.
pushSetter(d, scopes, un, i, acc) ==
    parseAttrEntries(d.cs, scopes, un, i + 1,
        [acc EXCEPT !.setters = Append(@, [attr |-> un.v[i].k, fn |-> d.fn])])

\* The body of for (const attr in unparsedAttrs) for entry i, after
\* attrs[attr] = undefined.
parseAttrEntry(cs, scopes, un, i, acc) ==
    IF isDynamic(un.v[i].val)
    THEN pushSetter(provide(cs, scopes, un.v[i].val), scopes, un, i, acc)
    ELSE IF typeof(un.v[i].val) = "object" /\ isConditional(un.v[i].val)
    THEN pushSetter(parseConditionAttr(cs, scopes, un.v[i].val, Null),
                    scopes, un, i, acc)
    ELSE IF typeof(un.v[i].val) = "object" /\ isPojo(un.v[i].val)
    THEN pushSetter(parseAttrs(cs, scopes, un.v[i].val), scopes, un, i, acc)
    ELSE parseAttrEntries(setAttr(cs, acc.attrs, un.v[i].k, un.v[i].val),
                          scopes, un, i + 1, acc)

\* The for (const attr in unparsedAttrs) loop from entry i on; acc.attrs is
\* the heap id of the closure's own attrs object.
parseAttrEntries(cs, scopes, un, i, acc) ==
    IF i > Len(un.v) THEN [cs |-> cs, setters |-> acc.setters]
    ELSE parseAttrEntry(setAttr(cs, acc.attrs, un.v[i].k, Undefined),
                        scopes, un, i, acc)

\* return () => { setters.forEach(...); return { ...attrs } }
attrMapFn(attrs, r) ==
    [cs |-> r.cs, fn |-> [k |-> "map", attrs |-> attrs, setters |-> r.setters]]

\* The plain-map part of parseAttrs, after const attrs = {}.
parseAttrMap(own, scopes, un) ==
    attrMapFn(own.id, parseAttrEntries(own.cs, scopes, un, 1,
                          [attrs |-> own.id, setters |-> <<>>]))

\* The root conditional part of parseAttrs, after its default {} is made.
parseRootCond(d, scopes, un) ==
    parseConditionAttr(d.cs, scopes, un, Ref(d.id))

parseAttrs(cs, scopes, unparsedAttrs) ==
    IF ~truthy(unparsedAttrs) THEN [cs |-> cs, fn |-> NullFn]
    ELSE IF isConditional(unparsedAttrs)
    THEN parseRootCond(rootDefault(alloc(cs, <<>>).cs), scopes, unparsedAttrs)
    ELSE parseAttrMap(alloc(cs, <<>>), scopes, unparsedAttrs)

RECURSIVE parseSchema(_, _, _)
RECURSIVE applyLet(_, _, _, _)

\* for (const key in node.let) setValue(data, scopes, key, node.let[key])
applyLet(store, scopes, bindings, i) ==
    IF i > Len(bindings.v) THEN store
    ELSE applyLet(setValue(store, scopes, bindings.v[i].k, bindings.v[i].val),
                  scopes, bindings, i + 1)

\* return [condition, children, alternate]
conditionParts(c, children, alternate) ==
    [cs |-> alternate.cs, condition |-> c, children |-> children,
     alternate |-> alternate.fn]

\* The alternate of parseCondition, after the then branch is compiled.
conditionElse(c, children, scopes, node) ==
    conditionParts(c, children.fn,
        IF truthy(Get(node, kElse))
        THEN parseSchema(children.cs, scopes, Get(node, kElse))
        ELSE [cs |-> children.cs, fn |-> NoFn])

\* The then branch of parseCondition, after the condition is compiled.
conditionThen(c, scopes, node) ==
    conditionElse(c.fn, parseSchema(c.cs, scopes, Get(node, kThen)),
                  scopes, node)

parseCondition(cs, scopes, node) ==
    conditionThen(provide(cs, scopes, Get(node, kIf)), scopes, node)

\* The parts of a node under compilation: p = [cs, rc], rc the RenderContent.
RenderContent(scopes) ==
    [condition |-> NoFn, element |-> Null, attrs |-> NullFn,
     children |-> NoFn, alternate |-> NoFn, scopes |-> scopes,
     iterator |-> NoFn]

withElement(scopes, el, a) ==
    [cs |-> a.cs,
     rc |-> [RenderContent(scopes) EXCEPT !.element = el,
                                          !.attrs = a.fn]]

withCondition(scopes, c) ==
    [cs |-> c.cs,
     rc |-> [RenderContent(scopes) EXCEPT !.condition = c.condition,
                                          !.children = c.children,
                                          !.alternate = c.alternate]]

\* The element, attrs and if/then/else part of parseNode.
parseKind(cs, scopes, node) ==
    IF isDOM(node)
    THEN withElement(scopes, Get(node, kEl),
             IF Get(node, kEl) # Str(TextEl)
             THEN parseAttrs(cs, scopes, Get(node, kAttrs))
             ELSE [cs |-> cs, fn |-> NullFn])
    ELSE IF isComponent(node)
    THEN withElement(scopes, Get(node, kCmp),
                     parseAttrs(cs, scopes, Get(node, kProps)))
    ELSE IF isConditional(node)
    THEN withCondition(scopes, parseCondition(cs, scopes, node))
    ELSE [cs |-> cs, rc |-> RenderContent(scopes)]

withGuard(p, c) == [cs |-> c.cs, rc |-> [p.rc EXCEPT !.condition = c.fn]]

\* The single-condition guard: 'if' in node on a node that is no if/then.
parseGuard(p, node) ==
    IF ~isConditional(node) /\ has(node, kIf)
    THEN withGuard(p, provide(p.cs, p.rc.scopes, Get(node, kIf)))
    ELSE p

\* Assign any explicitly scoped variables.
parseLet(p, node) ==
    IF has(node, kLet) /\ truthy(Get(node, kLet))
    THEN [p EXCEPT !.cs.scp = applyLet(@, p.rc.scopes, Get(node, kLet), 1)]
    ELSE p

withChildren(p, c) == [cs |-> c.cs, rc |-> [p.rc EXCEPT !.children = c.fn]]

\* children = () => String(value())
dynText(v) == [cs |-> v.cs, fn |-> [k |-> "dyn", value |-> v.fn]]

\* children = () => childCondition && childCondition() ? c && c() : a && a()
condChildren(c) ==
    [cs |-> c.cs,
     fn |-> [k |-> "cond", c |-> c.condition, a |-> c.children,
             b |-> c.alternate]]

\* The children part of parseNode.
parseChildren(p, node) ==
    IF has(node, kChildren) /\ truthy(Get(node, kChildren))
    THEN withChildren(p,
             IF IsString(Get(node, kChildren))
             THEN IF isDynamic(Get(node, kChildren))
                  THEN dynText(provide(p.cs, p.rc.scopes,
                                       Get(node, kChildren)))
                  ELSE [cs |-> p.cs,
                        fn |-> [k |-> "text", text |-> Get(node, kChildren)]]
             ELSE IF IsArray(Get(node, kChildren))
             THEN parseSchema(p.cs, p.rc.scopes, Get(node, kChildren))
             ELSE condChildren(parseCondition(p.cs, p.rc.scopes,
                                              Get(node, kChildren))))
    ELSE p

\* node.for.length === 3 ? node.for[2] : node.for[1]
forValues(for) == IF Len(for.v) = 3 THEN for.v[3] ELSE for.v[2]

\* iterator = [getValues, node.for[0], length === 3 ? String(node.for[1]) : null]
withIterator(p, for, g) ==
    [cs |-> g.cs,
     rc |-> [p.rc EXCEPT !.iterator =
                [k |-> "iterator", getValues |-> g.fn,
                 valueName |-> for.v[1].v,
                 keyName |-> IF Len(for.v) = 3 THEN Str(ToStr(for.v[2]))
                             ELSE Null]]]

\* The for part of parseNode.
parseFor(p, node) ==
    IF has(node, kFor) /\ truthy(Get(node, kFor))
    THEN withIterator(p, Get(node, kFor),
             IF IsString(forValues(Get(node, kFor)))
                /\ forValues(Get(node, kFor)).v # <<>>
                /\ forValues(Get(node, kFor)).v[1] = "$"
             THEN provide(p.cs, p.rc.scopes, forValues(Get(node, kFor)))
             ELSE [cs |-> p.cs, fn |-> ConstFn(forValues(Get(node, kFor)))])
    ELSE p

\* A bare string is the text node { $el: 'text', children: _node }.
normalNode(_node) ==
    IF IsString(_node)
    THEN Obj(<<E(kEl, Str(TextEl)), E(kChildren, _node)>>)
    ELSE _node

\* parseNode once scopes = [..._scopes, Symbol()] and node are fixed.
parseParts(cs, scopes, node) ==
    parseFor(parseChildren(parseLet(parseGuard(parseKind(cs, scopes, node),
                                               node), node), node), node)

parseNode(cs, _scopes, _node) ==
    parseParts([cs EXCEPT !.sym = @ + 1], Append(_scopes, cs.sym),
               normalNode(_node))

\* The render closure createElement returns for the parsed node p.
nodeFn(p) == [cs |-> p.cs, fn |-> [k |-> "node", rc |-> p.rc]]

createElement(cs, parentScope, node) ==
    nodeFn(parseNode(cs, parentScope, node))

RECURSIVE createElements(_, _, _, _, _)

nextElement(e, parentScope, nodes, i, acc) ==
    createElements(e.cs, parentScope, nodes, i + 1, Append(acc, e.fn))

\* nodes.map(createElement.bind(null, data, parentScope, library))
createElements(cs, parentScope, nodes, i, acc) ==
    IF i > Len(nodes) THEN [cs |-> cs, fn |-> [k |-> "list", els |-> acc]]
    ELSE nextElement(createElement(cs, parentScope, nodes[i]), parentScope,
                     nodes, i, acc)

\* return () => element()
singleFn(e) == [cs |-> e.cs, fn |-> [k |-> "single", el |-> e.fn]]

parseSchema(cs, parentScope, nodes) ==
    IF IsArray(nodes) THEN createElements(cs, parentScope, nodes.v, 1, <<>>)
    ELSE singleFn(createElement(cs, parentScope, nodes))

\* --------------------------------------------------------------- render
\* A render pass threads rs through its closures: rs.it is the iteration
\* scope stack, rs.ret the value the last closure returned, rs.err is TRUE
\* once an exception is propagating, rs.nest counts the loop bodies being
\* evaluated; the rest records what the pass did. A step that follows a call
\* takes the call's result as a parameter.
VNode(el, attrs, children) ==
    [t |-> "vnode", v |-> [el |-> el, attrs |-> attrs, children |-> children]]

TextVNode(text) == [t |-> "text", v |-> text]

\* iterationScopes.push(frame)
pushFrame(stack, frame) == Append(stack, frame)

\* A loop that leaves its frame on the stack.
popFrame_Missing(stack) == stack

\* iterationScopes.pop()
popFrame(stack) == SubSeq(stack, 1, Len(stack) - 1)

\* { [valueName]: values[key], ...(keyName !== null ? { [keyName]: key } : {}) }
iterationFrame(valueName, keyName, values, key) ==
    Obj(Assign(<<E(valueName, Get(values, key))>>,
               IF keyName # Null THEN <<E(keyName.v, Str(key))>> ELSE <<>>))

RECURSIVE Range0(_, _)
Range0(i, n) == IF i >= n THEN <<>> ELSE <<Num(i)>> \o Range0(i + 1, n)

\* Array(n).fill(0).map((_, i) => i) when n = Number(_v) is a number, _v
\* itself otherwise; Array(n) throws a RangeError for a negative length.
valuesOf(n, _v) ==
    IF n.nan THEN _v
    ELSE IF n.n < 0 THEN Throw
    ELSE Arr(Range0(0, n.n))

\* !isNaN(_v) ? Array(Number(_v)).fill(0).map((_, i) => i) : _v
loopValues(_v) == valuesOf(ToNumber(_v), _v)

RECURSIVE run(_, _)
RECURSIVE runList(_, _, _, _)
RECURSIVE runSetters(_, _, _, _)
RECURSIVE runLoop(_, _, _, _, _, _, _)

listNext(els, i, r, acc) == runList(els, i + 1, r, Append(acc, r.ret))

\* els.map((e) => e())
runList(els, i, rs, acc) ==
    IF rs.err THEN rs
    ELSE IF i > Len(els) THEN [rs EXCEPT !.ret = Arr(acc)]
    ELSE listNext(els, i, run(els[i], rs), acc)

\* Object.assign(attrs, { [attr]: fn() }) with the setter's value r.ret.
setterNext(attrs, setters, i, r) ==
    IF r.err THEN r
    ELSE runSetters(attrs, setters, i + 1,
             [r EXCEPT !.heap[attrs] =
                 Obj(Assign(@.v, <<E(setters[i].attr, r.ret)>>))])

\* setters.forEach((setter) => setter())
runSetters(attrs, setters, i, rs) ==
    IF rs.err \/ i > Len(setters) THEN rs
    ELSE setterNext(attrs, setters, i, run(setters[i].fn, rs))

\* return { ...attrs }: a new instance holding the entries of attrs.
spreadAttrs(fn, r) ==
    IF r.err THEN r
    ELSE [r EXCEPT !.heap = Append(@, r.heap[fn.attrs]),
                   !.ret = Ref(Len(r.heap) + 1)]

\* The closure parseAttrs returns for a map.
runAttrMap(fn, rs) == spreadAttrs(fn, runSetters(fn.attrs, fn.setters, 1, rs))

\* The result val of an expression closure, recorded in rs.resolved.
exprResult(fn, rs, val) ==
    IF val = Throw
    THEN [rs EXCEPT !.err = TRUE,
                    !.resolved = Append(@, [token |-> fn.token,
                        stack |-> rs.it, held |-> refs[fn.ref].value,
                        result |-> val, nest |-> rs.nest])]
    ELSE [rs EXCEPT !.ret = val,
                    !.resolved = Append(@, [token |-> fn.token,
                        stack |-> rs.it, held |-> refs[fn.ref].value,
                        result |-> val, nest |-> rs.nest])]

\* An expression closure: () => checkScope(value.value, token)
runExpr(fn, rs) ==
    exprResult(fn, rs, checkScope(rs.it, refs[fn.ref].value, fn.token))

\* condition() ? a() : b() with the condition's value c.ret; an absent
\* branch gives null.
condBranch(fn, c) ==
    IF c.err THEN c
    ELSE IF truthy(c.ret) THEN run(fn.a, c) ELSE run(fn.b, c)

runCond(fn, rs) == condBranch(fn, run(fn.c, rs))

\* h(element, attrs, children) with the children's value c.ret.
hNode(rc, attrs, c) ==
    IF c.err THEN c ELSE [c EXCEPT !.ret = VNode(rc.element, attrs, c.ret)]

\* children ? children() : [] after attrs() returned a.ret; a returned map
\* instance is recorded in rs.attrCalls with its entries at the return.
hChildren(rc, a) ==
    IF a.err THEN a
    ELSE hNode(rc, a.ret,
             IF rc.children.k # "none"
             THEN run(rc.children,
                      IF a.ret.t # "ref" THEN a
                      ELSE [a EXCEPT !.attrCalls =
                               Append(@, [node |-> rc.scopes[Len(rc.scopes)],
                                          ret |-> a.ret.v,
                                          snap |-> a.heap[a.ret.v]])])
             ELSE IF a.ret.t # "ref" THEN [a EXCEPT !.ret = Arr(<<>>)]
             ELSE [a EXCEPT !.ret = Arr(<<>>),
                            !.attrCalls =
                               Append(@, [node |-> rc.scopes[Len(rc.scopes)],
                                          ret |-> a.ret.v,
                                          snap |-> a.heap[a.ret.v]])])

\* h(element, attrs(), children ? children() : [])
runH(rc, rs) == hChildren(rc, run(rc.attrs, rs))

\* createTextVNode(String(children()))
textNode(t) == IF t.err THEN t ELSE [t EXCEPT !.ret = TextVNode(ToStr(t.ret))]

\* What a node's condition selected in one evaluation, recorded in
\* rs.branches once the selected closure has returned r.ret: the node, the
\* kind of condition ("bare" for if/then/else, "guard" for an if on an
\* element or component), the ref and the value of the condition, the loop
\* depth, the branch run and what it returned.
selected(rc, kind, c, branch, r) ==
    IF r.err THEN r
    ELSE [r EXCEPT !.branches =
             Append(@, [node |-> rc.scopes[Len(rc.scopes)], kind |-> kind,
                        ref |-> rc.condition.ref, cond |-> c.ret,
                        nest |-> c.nest, branch |-> branch,
                        alternate |-> rc.alternate.k # "none",
                        ret |-> r.ret])]

\* if (element && (!condition || condition())) with the guard's value g.ret
elementNode(rc, g) ==
    IF rc.element = Str(TextEl) /\ rc.children.k # "none"
    THEN textNode(run(rc.children, g))
    ELSE runH(rc, g)

\* The element branch of createNodes with the guard's value g.ret.
elementBranch(rc, g) ==
    IF g.err THEN g
    ELSE IF rc.condition.k = "none" THEN elementNode(rc, g)
    ELSE IF ~truthy(g.ret)
    THEN selected(rc, "guard", g, "else", run(rc.alternate, g))
    ELSE selected(rc, "guard", g, "then", elementNode(rc, g))

\* An if/then/else that renders the other branch.
thenElse_Swapped(rc, c) ==
    IF c.err THEN c
    ELSE IF truthy(c.ret)
    THEN selected(rc, "bare", c, "else", run(rc.alternate, c))
    ELSE selected(rc, "bare", c, "then", run(rc.children, c))

\* return condition() ? children() : alternate && alternate()
thenElse(rc, c) ==
    IF c.err THEN c
    ELSE IF truthy(c.ret)
    THEN selected(rc, "bare", c, "then", run(rc.children, c))
    ELSE selected(rc, "bare", c, "else", run(rc.alternate, c))

\* The node part of createNodes: which nodes take the if/then branch.
isBareConditional(rc) ==
    rc.condition.k # "none" /\ rc.element = Null /\ rc.children.k # "none"

\* The first createNodes of createElement (one evaluation of the node).
createNodes(rc, rs) ==
    IF isBareConditional(rc) THEN thenElse(rc, run(rc.condition, rs))
    ELSE IF ~truthy(rc.element) THEN run(rc.alternate, rs)
    ELSE elementBranch(rc, IF rc.condition.k = "none"
                           THEN [rs EXCEPT !.ret = Bool(TRUE)]
                           ELSE run(rc.condition, rs))

\* fragment.push(repeatedNode()); iterationScopes.pop() with the body's
\* result, and on to the next key.
loopNext(rc, values, keys, i, body, fragment, frames) ==
    IF body.err THEN body
    ELSE runLoop(rc, values, keys, i + 1,
                 [body EXCEPT !.it = popFrame(@), !.nest = @ - 1],
                 Append(fragment, body.ret),
                 Append(frames, body.it[Len(body.it)]))

\* for (const key in values) { push; fragment.push(repeatedNode()); pop }
runLoop(rc, values, keys, i, rs, fragment, frames) ==
    IF i > Len(keys)
    THEN [rs EXCEPT !.ret = [fragment |-> Arr(fragment), frames |-> frames]]
    ELSE loopNext(rc, values, keys, i,
             createNodes(rc,
                 [rs EXCEPT !.it = pushFrame(@,
                                iterationFrame(rc.iterator.valueName,
                                    rc.iterator.keyName, values, keys[i])),
                            !.nest = @ + 1]),
             fragment, frames)

\* return fragment, recorded in rs.loops with the collection _v and the
\* frames pushed.
loopDone(rc, _v, r) ==
    IF r.err THEN r
    ELSE [r EXCEPT !.ret = r.ret.fragment,
                   !.loops = Append(@, [node |-> rc.scopes[Len(rc.scopes)],
                                        valueName |-> rc.iterator.valueName,
                                        keyName |-> rc.iterator.keyName,
                                        v |-> _v, frames |-> r.ret.frames,
                                        result |-> r.ret.fragment])]

\* if (typeof values !== 'object') return null, else the for...in loop.
loopOver(rc, g, values) ==
    IF values = Throw THEN [g EXCEPT !.err = TRUE]
    ELSE IF typeof(values) # "object"
    THEN [g EXCEPT !.ret = Null,
                   !.loops = Append(@, [node |-> rc.scopes[Len(rc.scopes)],
                                        valueName |-> rc.iterator.valueName,
                                        keyName |-> rc.iterator.keyName,
                                        v |-> g.ret, frames |-> <<>>,
                                        result |-> Null])]
    ELSE loopDone(rc, g.ret,
                  runLoop(rc, values, Keys(values), 1, g, <<>>, <<>>))

\* The loop wrapper after const _v = getValues().
loopWith(rc, g) == IF g.err THEN g ELSE loopOver(rc, g, loopValues(g.ret))

\* The second createNodes of createElement (the loop wrapper).
createNodesLoop(rc, rs) == loopWith(rc, run(rc.iterator.getValues, rs))

\* A returned call of a node's render closure, recorded in rs.calls.
returned(fn, rs, r) ==
    IF r.err THEN r
    ELSE [r EXCEPT !.calls =
             Append(@, [node |-> fn.rc.scopes[Len(fn.rc.scopes)],
                        loop |-> fn.rc.iterator.k # "none",
                        before |-> rs.it, after |-> r.it])]

\* A call of the render closure createElement returned.
runNode(fn, rs) ==
    returned(fn, rs, IF fn.rc.iterator.k # "none"
                     THEN createNodesLoop(fn.rc, rs)
                     ELSE createNodes(fn.rc, rs))

\* () => String(value())
stringOf(r) == IF r.err THEN r ELSE [r EXCEPT !.ret = Str(ToStr(r.ret))]

\* A call of the closure fn.
run(fn, rs) ==
    IF rs.err THEN rs
    ELSE CASE fn.k \in {"none", "null"} -> [rs EXCEPT !.ret = Null]
           [] fn.k = "const" -> [rs EXCEPT !.ret = fn.val]
           [] fn.k = "expr" -> runExpr(fn, rs)
           [] fn.k = "text" -> [rs EXCEPT !.ret = Str(ToStr(fn.text))]
           [] fn.k = "dyn" -> stringOf(run(fn.value, rs))
           [] fn.k = "list" -> runList(fn.els, 1, rs, <<>>)
           [] fn.k = "single" -> run(fn.el, rs)
           [] fn.k = "cond" -> runCond(fn, rs)
           [] fn.k = "map" -> runAttrMap(fn, rs)
           [] fn.k = "node" -> runNode(fn, rs)

\* -------------------------------------------------- schemas and data
X == <<"x">>
Y == <<"y">>
V == <<"v">>
W == <<"w">>
K == <<"k">>
C == <<"c">>
A == <<"a">>
B == <<"b">>
Div == <<"d", "i", "v">>
Li == <<"l", "i">>
Span == <<"s", "p", "a", "n">>
Hi == <<"h", "i">>

\* '$' + name: a dynamic expression naming one token.
Dyn(name) == Str(<<"$">> \o name)

XY == <<"x", ".", "y">>

NoData == Obj(<<>>)
Data1(k, val) == Obj(<<E(k, val)>>)

\* What a for descriptor's collection evaluates to in the model.
Colls ==
    {Num(0), Num(2), Num(-1), Str(<<"2">>), Str(<<"a", "b">>), Str(<<>>),
     Bool(TRUE), Bool(FALSE), Null, Undefined,
     Arr(<<>>), Arr(<<Num(2)>>), Arr(<<Num(7), Num(8)>>),
     Arr(<<Str(A)>>), Arr(<<Null>>), Arr(<<Undefined, Num(1)>>),
     Obj(<<>>), Obj(<<E(A, Num(1)), E(B, Num(2))>>)}

Case(sch, d) == [schema |-> sch, data |-> d]

Loop(tag, for, children) ==
    Obj(<<E(kEl, Str(tag)), E(kFor, Arr(for)), E(kChildren, children)>>)

\* One loop: a static collection, with a key variable, or a dynamic one.
LoopCases ==
    {Case(Arr(<<Loop(Li, <<Str(V), c>>, Dyn(V))>>), NoData) : c \in Colls}
    \cup {Case(Arr(<<Loop(Li, <<Str(V), Str(K), c>>, Dyn(K))>>), NoData) :
             c \in Colls}
    \cup {Case(Arr(<<Loop(Li, <<Str(V), Dyn(C)>>, Dyn(V))>>), Data1(C, c)) :
             c \in Colls}

Inner == {Arr(<<Num(3)>>), Arr(<<Num(3), Num(4)>>), Arr(<<>>), Num(1),
          Arr(<<Undefined>>), Obj(<<E(A, Num(5))>>)}

\* A use of a data key v, then a loop binding v whose body holds a loop
\* (binding v again, or w) and a use of v, then a use of v again; and the
\* same around a single loop.
NestedCases ==
    {Case(Arr(<<Dyn(V),
                Loop(Li, <<Str(V), Arr(<<Num(7), Num(8)>>)>>,
                     Arr(<<Loop(Span, <<Str(n), c>>, Dyn(V)), Dyn(V)>>)),
                Dyn(V)>>),
          Data1(V, Str(A))) : n \in {V, W}, c \in Inner}
    \cup {Case(Arr(<<Dyn(V), Loop(Li, <<Str(V), c>>, Dyn(V)), Dyn(V)>>),
               Data1(V, Str(A))) : c \in Inner}

\* A loop under an if/then/else, and a loop whose body carries a guard.
GuardedCases ==
    {Case(Arr(<<Obj(<<E(kIf, Dyn(X)),
                      E(kThen, Arr(<<Loop(Li, <<Str(V), c>>, Dyn(V))>>)),
                      E(kElse, Str(Hi))>>)>>),
          Data1(X, Num(b))) : c \in Inner, b \in {0, 1}}
    \cup {Case(Arr(<<Obj(<<E(kEl, Str(Li)), E(kIf, Dyn(X)),
                           E(kFor, Arr(<<Str(V), c>>)),
                           E(kChildren, Dyn(V))>>)>>),
               Data1(X, Num(b))) : c \in Inner, b \in {0, 1}}

\* A loop whose frames hold null, with a dotted token read in the body.
NullFrameCases ==
    {Case(Arr(<<Loop(Li, <<Str(X), Arr(<<c, Num(1)>>)>>, Dyn(XY))>>), NoData) :
        c \in {Null, Obj(<<E(Y, Num(1))>>)}}

LetOf(vals) == IF vals = <<>> THEN <<>> ELSE <<E(kLet, Obj(<<E(X, vals[1])>>))>>

\* div(let) > div(if, let) > div(let) > text, beside a sibling text.
ScopeTree(a, n, d, tok) ==
    Arr(<<Obj(<<E(kEl, Str(Div))>> \o LetOf(a) \o
              <<E(kChildren, Arr(<<
                  Obj(<<E(kEl, Str(Div)), E(kIf, Dyn(tok))>> \o LetOf(n) \o
                      <<E(kChildren, Arr(<<
                          Obj(<<E(kEl, Str(Span))>> \o LetOf(d) \o
                              <<E(kChildren, Dyn(tok))>>)>>))>>)>>))>>),
          Dyn(tok)>>)

LetVals == {<<>>, <<Num(1)>>, <<Num(2)>>, <<Undefined>>}

ScopeCases ==
    {Case(ScopeTree(a, n, d, X), dt) :
        a \in LetVals, n \in LetVals, d \in {<<>>, <<Num(3)>>},
        dt \in {NoData, Data1(X, Num(9))}}
    \cup {Case(ScopeTree(a, n, <<>>, XY), dt) :
             a \in {<<>>, <<Obj(<<E(Y, Num(1))>>)>>, <<Obj(<<E(Y, Undefined)>>)>>},
             n \in {<<>>, <<Obj(<<E(Y, Num(2))>>)>>, <<Null>>},
             dt \in {NoData, Data1(X, Obj(<<E(Y, Num(9))>>))}}

CondAttr(then, else) ==
    Obj(<<E(kIf, Dyn(X)), E(kThen, then)>> \o
        (IF else = <<>> THEN <<>> ELSE <<E(kElse, else[1])>>))

RawAttrs ==
    {Obj(<<>>), Obj(<<E(A, Num(1))>>), Obj(<<E(A, Dyn(X))>>),
     Obj(<<E(A, Obj(<<E(B, Num(1))>>))>>),
     Obj(<<E(A, CondAttr(Num(1), <<Num(2)>>))>>),
     Obj(<<E(A, CondAttr(Num(1), <<>>))>>),
     CondAttr(Obj(<<E(A, Num(1))>>), <<>>),
     CondAttr(Obj(<<E(A, Num(1))>>), <<Obj(<<E(B, Dyn(X))>>)>>),
     CondAttr(Obj(<<E(A, Dyn(X))>>), <<Obj(<<>>)>>)}

\* An element or a component with attributes, alone or repeated by a loop.
AttrCases ==
    {Case(Arr(<<Obj(<<E(kEl, Str(Div)), E(kAttrs, r)>>)>>), Data1(X, Num(b))) :
        r \in RawAttrs, b \in {0, 1}}
    \cup {Case(Arr(<<Obj(<<E(kCmp, Str(Div)), E(kProps, r)>>)>>),
               Data1(X, Num(b))) : r \in RawAttrs, b \in {0, 1}}
    \cup {Case(Arr(<<Obj(<<E(kEl, Str(Li)), E(kAttrs, r),
                           E(kFor, Arr(<<Str(V), Num(2)>>))>>)>>),
               Data1(X, Num(b))) : r \in RawAttrs, b \in {0, 1}}

Opt(on, e) == IF on THEN <<e>> ELSE <<>>

\* Objects that are no element, no component and no if/then/else node.
ShapelessCases ==
    {Case(Arr(<<Obj(Opt(i, E(kIf, Dyn(X))) \o ch \o
                    Opt(l, E(kLet, Obj(<<E(X, Num(1))>>))) \o
                    Opt(f, E(kFor, Arr(<<Str(V), Num(2)>>))))>>),
          Data1(X, Num(b))) :
        i \in BOOLEAN, l \in BOOLEAN, f \in BOOLEAN, b \in {0, 1},
        ch \in {<<>>, <<E(kChildren, Str(Hi))>>,
                <<E(kChildren, Arr(<<Obj(<<E(kEl, Str(Div))>>)>>))>>}}

Cases == LoopCases \cup NestedCases \cup GuardedCases \cup NullFrameCases
         \cup ScopeCases \cup AttrCases \cup ShapelessCases

\* What a mutation of the root data writes to its key x.
MutVals == {Num(0), Num(1), Null}

\* ------------------------------------------------------------ the program
NotCompiled == [k |-> "none"]

Init ==
    /\ \E c \in Cases : schema = c.schema /\ data = c.data
    /\ scp = <<>>
    /\ refs = <<>>
    /\ heap = <<>>
    /\ element = NotCompiled
    /\ iterationScopes = <<>>
    /\ dirty = FALSE
    /\ raised = FALSE
    /\ pc = "init"
    /\ out = Null
    /\ thrown = FALSE
    /\ calls = <<>>
    /\ resolved = <<>>
    /\ loops = <<>>
    /\ attrCalls = <<>>
    /\ branches = <<>>
    /\ seen = <<>>
    /\ passes = 0
    /\ mutations = 0

\* setup(): the watchEffect that compiles the schema,
\* parseSchema(data, [Symbol()], props.library, props.schema).
Compiled(r) ==
    /\ element' = r.fn
    /\ scp' = r.cs.scp
    /\ refs' = r.cs.refs
    /\ heap' = r.cs.heap
    /\ raised' = r.cs.raised

Setup ==
    /\ pc = "init"
    /\ Compiled(parseSchema([scp |-> <<>>, refs |-> <<>>, heap |-> <<>>,
                             sym |-> 2, raised |-> FALSE], <<1>>, schema))
    /\ dirty' = TRUE
    /\ pc' = "ready"
    /\ UNCHANGED <<schema, data, iterationScopes, out, thrown, calls,
                   resolved, loops, attrCalls, branches, seen, passes,
                   mutations>>

\* The host assigns a value to a key of the reactive data.
Mutate ==
    /\ pc = "ready"
    /\ mutations < MaxMutations
    /\ \E val \in MutVals : data' = Obj(Assign(data.v, <<E(X, val)>>))
    /\ mutations' = mutations + 1
    /\ dirty' = TRUE
    /\ UNCHANGED <<schema, scp, refs, heap, element, iterationScopes, raised,
                   pc, out, thrown, calls, resolved, loops, attrCalls,
                   branches, seen, passes>>

\* The host deletes a key of the reactive data.
Delete ==
    /\ pc = "ready"
    /\ mutations < MaxMutations
    /\ HasKey(data.v, X)
    /\ data' = Obj(SelectSeq(data.v, LAMBDA e : e.k # X))
    /\ mutations' = mutations + 1
    /\ dirty' = TRUE
    /\ UNCHANGED <<schema, scp, refs, heap, element, iterationScopes, raised,
                   pc, out, thrown, calls, resolved, loops, attrCalls,
                   branches, seen, passes>>

\* The reactive substrate re-runs the queued getRef effects.
Flush ==
    /\ pc = "ready"
    /\ dirty
    /\ refs' = [i \in 1..Len(refs) |-> runEffect(data, scp, refs[i])]
    /\ raised' = (raised \/ \E i \in 1..Len(refs) : refs'[i].found = Throw)
    /\ dirty' = FALSE
    /\ UNCHANGED <<schema, data, scp, heap, element, iterationScopes, pc, out,
                   thrown, calls, resolved, loops, attrCalls, branches,
                   seen, passes,
                   mutations>>

\* One render pass: the component's render function calls element().
Rendered(r) ==
    /\ out' = IF r.err THEN Throw ELSE r.ret
    /\ thrown' = (thrown \/ r.err)
    /\ iterationScopes' = r.it
    /\ heap' = r.heap
    /\ calls' = r.calls
    /\ resolved' = r.resolved
    /\ loops' = r.loops
    /\ attrCalls' = r.attrCalls
    /\ branches' = r.branches

Render ==
    /\ pc = "ready"
    /\ ~dirty \/ passes = 0
    /\ passes < MaxPasses
    /\ Rendered(run(element, [it |-> iterationScopes, heap |-> heap,
                              calls |-> <<>>, resolved |-> <<>>,
                              loops |-> <<>>, attrCalls |-> attrCalls,
                              branches |-> <<>>,
                              err |-> FALSE, ret |-> Null, nest |-> 0]))
    /\ seen' = refs
    /\ passes' = passes + 1
    /\ UNCHANGED <<schema, data, scp, refs, element, dirty, raised, pc,
                   mutations>>

Next == Setup \/ Mutate \/ Delete \/ Flush \/ Render

Spec == Init /\ [][Next]_vars

\* ---------------------------------------------------------- properties
Ready == pc = "ready"

\* The effects have re-run since the last write they depend on.
Fresh == Ready /\ ~dirty

Max(S) == CHOOSE m \in S : \A n \in S : n <= m

Min(S) == CHOOSE m \in S : \A n \in S : m <= n

\* C1: every render closure leaves the iteration scope stack, when it
\* returns, as it found it: the same frames, hence the same depth. So, when
\* every pass so far has returned, the stack is empty between passes, an
\* expression is evaluated under exactly as many frames as loop bodies
\* enclose it, and an expression outside every loop (before or after one)
\* resolves to the held value of its token, whatever the loops bound
\* meanwhile.
C1_StackRestored ==
    /\ \A i \in 1..Len(calls) : calls[i].after = calls[i].before
    /\ ~thrown =>
         /\ iterationScopes = <<>>
         /\ \A i \in 1..Len(resolved) :
              /\ Len(resolved[i].stack) = resolved[i].nest
              /\ resolved[i].nest = 0 =>
                   resolved[i].result = resolved[i].held

\* C1 witness: a pass in which a loop closure returned inside the body of
\* another loop, and a token that a loop body saw shadowed resolved to its
\* held value again after the loop.
C1_Witness ==
    /\ ~thrown
    /\ iterationScopes = <<>>
    /\ \E i \in 1..Len(calls) : calls[i].loop /\ calls[i].before # <<>>
    /\ \E i, j \in 1..Len(resolved) :
         /\ i < j
         /\ resolved[i].token = resolved[j].token
         /\ resolved[i].nest > 0
         /\ resolved[i].result # resolved[i].held
         /\ resolved[j].nest = 0
         /\ resolved[j].result = resolved[j].held

\* The frames of a stack that own a name.
BindersOf(stack, name) == {i \in 1..Len(stack) : has(stack[i], name)}

\* C2: an expression evaluated under several frames that bind its name
\* resolves the name to the value in the innermost (most recently pushed)
\* of them.
C2_InnermostFrameWins ==
    \A i \in 1..Len(resolved) :
        (/\ Len(split(resolved[i].token)) = 1
         /\ Cardinality(BindersOf(resolved[i].stack, resolved[i].token)) >= 2
         /\ \A j \in BindersOf(resolved[i].stack, resolved[i].token) :
               Get(resolved[i].stack[j], resolved[i].token) # Undefined)
        => resolved[i].result =
             Get(resolved[i].stack[Max(BindersOf(resolved[i].stack,
                                                 resolved[i].token))],
                 resolved[i].token)

\* The positions of a scope path whose scope binds a name.
ScopesBinding(store, scopes, name) ==
    {j \in 1..Len(scopes) :
        scopes[j] \in DOMAIN store /\ has(store[scopes[j]], name)}

\* The value a scope path gives a name when the binding nearest to the
\* node is the one that counts.
NearestBinding(store, scopes, name) ==
    Get(store[scopes[Max(ScopesBinding(store, scopes, name))]], name)

\* C3: a name bound by let in scopes on the path from the root to a node
\* resolves, for that node, to the binding of the scope nearest to the node;
\* a binding in any scope on the path is preferred to the root data.
C3_NearestScopeWins ==
    Fresh =>
      \A i \in 1..Len(refs) :
        (/\ Len(refs[i].path) = 1
         /\ ScopesBinding(scp, refs[i].scopes, refs[i].path[1]) # {}
         /\ \A j \in ScopesBinding(scp, refs[i].scopes, refs[i].path[1]) :
               Get(scp[refs[i].scopes[j]], refs[i].path[1]) # Undefined)
        => refs[i].value = NearestBinding(scp, refs[i].scopes, refs[i].path[1])

\* The object that holds the final segment of a path inside a candidate.
RECURSIVE Holder(_, _, _)
Holder(obj, path, i) ==
    IF i >= Len(path) THEN obj
    ELSE IF Get(obj, path[i]).t \in {"object", "array"}
         THEN Holder(Get(obj, path[i]), path, i + 1)
         ELSE EmptyObj

\* A candidate owns the final path segment as a key.
Owns(set, path) == has(Holder(set, path, 1), path[Len(path)])

OwnedValue(set, path) == Get(Holder(set, path, 1), path[Len(path)])

Owners(sets, path) == {j \in 1..Len(sets) : Owns(sets[j], path)}

\* C4: when the first candidate of the search order that owns the final
\* path segment holds the undefined value under it, the search ends there
\* and the token resolves to the undefined value, hiding later candidates.
C4_UndefinedKeyIsHit ==
    Fresh =>
      \A i \in 1..Len(refs) :
        (/\ refs[i].found # Throw
         /\ Owners(lookupSets(data, scp, refs[i].scopes), refs[i].path) # {}
         /\ OwnedValue(lookupSets(data, scp, refs[i].scopes)
                          [Min(Owners(lookupSets(data, scp, refs[i].scopes),
                                      refs[i].path))],
                       refs[i].path) = Undefined)
        => refs[i].found = Undefined

\* C5: two consecutive calls of the attribute closure of one node return
\* distinct maps, each holding what that call resolved.
C5_FreshAttrMaps ==
    /\ \A i \in 1..Len(attrCalls) : heap[attrCalls[i].ret] = attrCalls[i].snap
    /\ \A i, j \in 1..Len(attrCalls) :
         (/\ i < j
          /\ attrCalls[i].node = attrCalls[j].node
          /\ \A k \in (i + 1)..(j - 1) : attrCalls[k].node # attrCalls[i].node)
         => attrCalls[i].ret # attrCalls[j].ret

\* The nodes of a scope tree by scope symbol: the outer element, the element
\* in it, and the element in that.
NodeAt(s) ==
    IF s = 2 THEN schema.v[1]
    ELSE IF s = 3 THEN Get(schema.v[1], kChildren).v[1]
    ELSE Get(Get(schema.v[1], kChildren).v[1], kChildren).v[1]

IsScopeTree == schema \in {c.schema : c \in ScopeCases}

\* The bindings sit in the scopes of the nodes that declare them, and
\* nowhere else.
LetIsLocal ==
    /\ \A s \in DOMAIN scp : s \in 2..4
    /\ \A s \in 2..4 :
         IF has(NodeAt(s), kLet)
         THEN s \in DOMAIN scp /\ scp[s] = Get(NodeAt(s), kLet)
         ELSE s \notin DOMAIN scp

\* A ref below the scope at position j of its path, with no binding of its
\* token between that scope and itself.
SeesScope(r, j) ==
    /\ r.scopes[j] \in DOMAIN scp
    /\ Owns(scp[r.scopes[j]], r.path)
    /\ OwnedValue(scp[r.scopes[j]], r.path) # Undefined
    /\ \A k \in (j + 1)..Len(r.scopes) :
          r.scopes[k] \in DOMAIN scp => ~Owns(scp[r.scopes[k]], r.path)

\* A ref with no scope on its path that binds its token.
OutsideLet(r) ==
    \A j \in 1..Len(r.scopes) :
        r.scopes[j] \in DOMAIN scp => ~Owns(scp[r.scopes[j]], r.path)

\* C6: a let on a node is written to that node's own scope only; the bound
\* name resolves to the bound value in the expressions of the node and of
\* every descendant (where no nearer let binds the name again), and is not
\* seen by expressions outside the node's subtree, which resolve the name
\* from the root data as if the let were absent.
C6_LetScopedToSubtree ==
    (Fresh /\ IsScopeTree) =>
      /\ LetIsLocal
      /\ \A i \in 1..Len(refs) :
           refs[i].found # Throw =>
             /\ \A j \in 1..Len(refs[i].scopes) :
                  SeesScope(refs[i], j) =>
                    refs[i].value = OwnedValue(scp[refs[i].scopes[j]],
                                               refs[i].path)
             /\ (OutsideLet(refs[i]) /\ Owns(data, refs[i].path)
                   /\ OwnedValue(data, refs[i].path) # Undefined) =>
                  refs[i].value = OwnedValue(data, refs[i].path)
             /\ (OutsideLet(refs[i]) /\ ~Owns(data, refs[i].path)
                   /\ mutations = 0) =>
                  refs[i].value = Null

\* The frame of one iteration: the value under the value name, the key
\* under the key name.
FrameOf(l, key) ==
    IF l.keyName = Null THEN Obj(<<E(l.valueName, Get(l.v, key))>>)
    ELSE Obj(Assign(<<E(l.valueName, Get(l.v, key))>>,
                    <<E(l.keyName.v, Str(key))>>))

\* C7: a loop over a number n >= 0 runs its body for 0..n-1 in order; a loop
\* over a list or a map runs it once per own key in key order, each time
\* under a frame that binds the value name to the value under the key (and
\* the key name to the key); the result lists the body results in order.
C7_LoopPerKey ==
    \A i \in 1..Len(loops) :
        /\ (loops[i].v.t = "number" /\ loops[i].v.v >= 0) =>
             /\ Len(loops[i].frames) = loops[i].v.v
             /\ \A j \in 1..Len(loops[i].frames) :
                  Get(loops[i].frames[j], loops[i].valueName) = Num(j - 1)
             /\ loops[i].result.t = "array"
             /\ Len(loops[i].result.v) = loops[i].v.v
        /\ loops[i].v.t \in {"array", "object"} =>
             /\ Len(loops[i].frames) = Len(Keys(loops[i].v))
             /\ \A j \in 1..Len(loops[i].frames) :
                  loops[i].frames[j] = FrameOf(loops[i], Keys(loops[i].v)[j])
             /\ loops[i].result.t = "array"
             /\ Len(loops[i].result.v) = Len(Keys(loops[i].v))

\* A collection that is neither a count nor indexable.
NotIterable(c) ==
    \/ c.t \in {"boolean", "null", "undefined"}
    \/ c.t = "string" /\ StrToNumber(c.v).nan

\* C8: a loop whose collection is a boolean, a string that is no number,
\* null or undefined runs its body zero times and renders nothing.
C8_NotIterableIsEmpty ==
    \A i \in 1..Len(loops) :
        NotIterable(loops[i].v) =>
          /\ loops[i].frames = <<>>
          /\ loops[i].result \in {Null, Arr(<<>>)}

\* A node that is no text, no element, no component and no if/then/else.
IsShapeless(node) ==
    /\ ~IsString(node)
    /\ ~isDOM(node)
    /\ ~isComponent(node)
    /\ ~isConditional(node)

\* A render result that holds no text and no virtual node.
RECURSIVE RendersNothing(_)
RendersNothing(r) ==
    \/ r \in {Null, Undefined, Bool(FALSE)}
    \/ r.t = "array" /\ \A i \in 1..Len(r.v) : RendersNothing(r.v[i])

\* C9: a node of no recognized shape compiles without an error to a closure
\* that renders nothing and does not throw, whatever other keys (if,
\* children, let, for) it carries.
C9_ShapelessRendersNothing ==
    (/\ Ready
     /\ schema.t = "array"
     /\ Len(schema.v) = 1
     /\ IsShapeless(schema.v[1]))
    => /\ ~raised
       /\ ~thrown
       /\ passes > 0 => RendersNothing(out)

\* C10: a run of a resolver's effect that finds the token in no candidate
\* leaves the held value as it was, a run that finds it stores the found
\* value, and no run raises an error (stated for the runs before which no
\* error was raised).
C10_NotFoundKeepsValue ==
    [][(Flush /\ ~raised) =>
         /\ ~raised'
         /\ \A i \in 1..Len(refs) :
              /\ Owners(lookupSets(data, scp, refs[i].scopes),
                        refs[i].path) = {}
                   => refs'[i].value = refs[i].value
              /\ refs'[i].found \notin {Undefined, Throw}
                   => refs'[i].value = refs'[i].found]_vars

\* A render result with every attribute map instance replaced by its
\* entries, so that results of different passes compare by structure.
RECURSIVE Materialize(_, _)
Materialize(val, h) ==
    IF val.t = "ref" THEN Materialize(h[val.v], h)
    ELSE IF val.t = "object"
    THEN Obj([i \in 1..Len(val.v) |->
                 E(val.v[i].k, Materialize(val.v[i].val, h))])
    ELSE IF val.t = "array"
    THEN Arr([i \in 1..Len(val.v) |-> Materialize(val.v[i], h)])
    ELSE IF val.t = "vnode"
    THEN VNode(val.v.el, Materialize(val.v.attrs, h),
               Materialize(val.v.children, h))
    ELSE val

\* In the last pass every condition selected by its truthiness: the then
\* branch (the node, for a guard) when truthy, the else branch otherwise,
\* which is nothing for a guard and for an if/then without else.
BranchFollowsCondition ==
    \A i \in 1..Len(branches) :
        /\ (branches[i].branch = "then") = truthy(branches[i].cond)
        /\ (branches[i].kind = "guard" /\ truthy(branches[i].cond)) =>
             branches[i].ret.t \in {"vnode", "text"}
        /\ (branches[i].kind = "guard" /\ ~truthy(branches[i].cond)) =>
             branches[i].ret = Null
        /\ (branches[i].kind = "bare" /\ ~truthy(branches[i].cond)
              /\ ~branches[i].alternate) =>
             branches[i].ret = Null

\* In the last pass every condition outside the loops had the value its
\* resolver held when the pass ran.
ConditionReadsHeld ==
    \A i \in 1..Len(branches) :
        branches[i].nest = 0 =>
          branches[i].cond = seen[branches[i].ref].value

\* A condition of the last pass on a token that only the root data can
\* bind, evaluated outside the loops.
OnData(e) == e.nest = 0 /\ OutsideLet(refs[e.ref])

\* In the last pass every condition on a token the root data defines had
\* the data's value.
ConditionReadsFound ==
    \A i \in 1..Len(branches) :
        (/\ OnData(branches[i])
         /\ Owns(data, refs[branches[i].ref].path)
         /\ OwnedValue(data, refs[branches[i].ref].path) # Undefined)
        => branches[i].cond = OwnedValue(data, refs[branches[i].ref].path)

\* In the last pass every condition on a one-segment token of the root data
\* was truthy exactly when the data's value under the token is truthy (a
\* key the data lacks being undefined, hence falsy).
ConditionReadsData ==
    \A i \in 1..Len(branches) :
        (OnData(branches[i]) /\ Len(refs[branches[i].ref].path) = 1)
        => truthy(branches[i].cond)
             = truthy(OwnedValue(data, refs[branches[i].ref].path))

\* A pass that follows a pass with no held value changed in between
\* returns a structurally equal result.
SameHeldSameOutput ==
    (passes >= 1 /\ seen = refs /\ ~thrown')
    => Materialize(out', heap') = Materialize(out, heap)

\* The schema holds no node of unrecognized shape (whose if and children
\* createNodes treats as an if/then, see C9).
HasShape ==
    ~(schema.t = "array" /\ Len(schema.v) = 1 /\ IsShapeless(schema.v[1]))

\* C11 as stated: every evaluation of a node's render closure evaluates
\* its condition afresh against the current data and renders the branch
\* the condition selects (then or else for an if/then/else, the node or
\* nothing for a guard); after a data mutation has been propagated, the
\* next evaluation selects the branch for the new data; two evaluations
\* with unchanged inputs produce equal output.
C11_BranchForCurrentData ==
    [][(Render /\ HasShape) =>
                 /\ BranchFollowsCondition'
                 /\ ~dirty => ConditionReadsData'
                 /\ SameHeldSameOutput]_vars

\* C11 amended: every evaluation evaluates its condition afresh against
\* the values its resolvers hold at that time and renders the branch the
\* condition selects; after a propagated data mutation that leaves the
\* condition's token defined in the data, the next evaluation selects the
\* branch for the new data (a token that is no longer found keeps its last
\* found value); two evaluations between which no held value changed
\* produce equal output.
C11_BranchForHeldValue ==
    [][Render => /\ BranchFollowsCondition'
                 /\ ConditionReadsHeld'
                 /\ ~dirty => ConditionReadsFound'
                 /\ SameHeldSameOutput]_vars

\* C11 witness: a second pass, after a mutation that set the condition's
\* token to null had been propagated, selected the else branch of an
\* if/then/else on the null it found in the data.
C11_Witness ==
    /\ passes = 2
    /\ ~thrown
    /\ ~dirty
    /\ Get(data, X) = Null
    /\ \E i \in 1..Len(branches) :
         /\ branches[i].kind = "bare"
         /\ branches[i].nest = 0
         /\ branches[i].branch = "else"
         /\ branches[i].cond = Null
         /\ seen[branches[i].ref].found = Null

====
